---- MODULE Spec2Model ----
(***************************************************************************)
(* The three build scripts of TotK-Object-Map as one state machine:        *)
(*   generate-named-places.js      -> data-named-places.txt                 *)
(*   generate-object-locations.js  -> data-object-locations.txt             *)
(*   generate-object-inventory.js  -> data-object-inventory.txt             *)
(* A JavaScript string is a tuple of one-character strings, so that split, *)
(* trim, includes, join, number formatting and comparison are computed.    *)
(* A JavaScript number is [w, f, nz]: the value w + f/10 (w its floor),    *)
(* nz set for negative zero.                                               *)
(***************************************************************************)
EXTENDS Integers, Sequences, FiniteSets, TLC

\* Largest number of records read in one run, over all four layer files.
MaxRecords == 2

VARIABLES
    script,   \* which of the three scripts is running
    pc,       \* "loop": at the head of main's for loop; "entries": inside
              \* the entry loop of the current file; "done"; "aborted"
    fileIdx,  \* index into sourceFiles of the file main's loop is at
    fs,       \* what the run has found each file to be
    data,     \* the records read so far from each file, in file order
    objects,  \* generate-object-locations: Map label -> Set of point strings
    places,   \* generate-named-places: Map path -> Place
    stats,    \* generate-named-places: the stats object
    lines,    \* generate-object-inventory: Set of lines
    output,   \* the lines handed to join, each with the key and the point
              \* tokens it was composed from
    written   \* the texts handed to fs.writeFileSync, in order

vars == <<script, pc, fileIdx, fs, data, objects, places, stats, lines, output, written>>

-----------------------------------------------------------------------------
\* Strings

\* Code unit of each character (String.prototype.charCodeAt).
CodePoint ==
    ("\t" :> 9) @@ ("\n" :> 10) @@ (" " :> 32) @@ ("!" :> 33) @@ ("\"" :> 34) @@ ("#" :> 35) @@
    ("$" :> 36) @@ ("%" :> 37) @@ ("&" :> 38) @@ ("'" :> 39) @@ ("(" :> 40) @@ (")" :> 41) @@
    ("*" :> 42) @@ ("+" :> 43) @@ ("," :> 44) @@ ("-" :> 45) @@ ("." :> 46) @@ ("/" :> 47) @@
    ("0" :> 48) @@ ("1" :> 49) @@ ("2" :> 50) @@ ("3" :> 51) @@ ("4" :> 52) @@ ("5" :> 53) @@
    ("6" :> 54) @@ ("7" :> 55) @@ ("8" :> 56) @@ ("9" :> 57) @@ (":" :> 58) @@ (";" :> 59) @@
    ("<" :> 60) @@ ("=" :> 61) @@ (">" :> 62) @@ ("?" :> 63) @@ ("@" :> 64) @@ ("A" :> 65) @@
    ("B" :> 66) @@ ("C" :> 67) @@ ("D" :> 68) @@ ("E" :> 69) @@ ("F" :> 70) @@ ("G" :> 71) @@
    ("H" :> 72) @@ ("I" :> 73) @@ ("J" :> 74) @@ ("K" :> 75) @@ ("L" :> 76) @@ ("M" :> 77) @@
    ("N" :> 78) @@ ("O" :> 79) @@ ("P" :> 80) @@ ("Q" :> 81) @@ ("R" :> 82) @@ ("S" :> 83) @@
    ("T" :> 84) @@ ("U" :> 85) @@ ("V" :> 86) @@ ("W" :> 87) @@ ("X" :> 88) @@ ("Y" :> 89) @@
    ("Z" :> 90) @@ ("[" :> 91) @@ ("\\" :> 92) @@ ("]" :> 93) @@ ("^" :> 94) @@ ("_" :> 95) @@
    ("a" :> 97) @@ ("b" :> 98) @@ ("c" :> 99) @@ ("d" :> 100) @@ ("e" :> 101) @@ ("f" :> 102) @@
    ("g" :> 103) @@ ("h" :> 104) @@ ("i" :> 105) @@ ("j" :> 106) @@ ("k" :> 107) @@ ("l" :> 108) @@
    ("m" :> 109) @@ ("n" :> 110) @@ ("o" :> 111) @@ ("p" :> 112) @@ ("q" :> 113) @@ ("r" :> 114) @@
    ("s" :> 115) @@ ("t" :> 116) @@ ("u" :> 117) @@ ("v" :> 118) @@ ("w" :> 119) @@ ("x" :> 120) @@
    ("y" :> 121) @@ ("z" :> 122) @@ ("{" :> 123) @@ ("|" :> 124) @@ ("}" :> 125) @@ ("~" :> 126)

\* Primary collation weight of each character under the root collation
\* String.prototype.localeCompare uses by default: white space, then
\* punctuation, then symbols, then digits, then letters without regard to
\* case.
CollationPrimary ==
    ("\t" :> 1) @@ ("\n" :> 2) @@ (" " :> 3) @@ ("!" :> 9) @@ ("\"" :> 13) @@ ("#" :> 25) @@
    ("$" :> 34) @@ ("%" :> 26) @@ ("&" :> 24) @@ ("'" :> 12) @@ ("(" :> 14) @@ (")" :> 15) @@
    ("*" :> 21) @@ ("+" :> 28) @@ ("," :> 6) @@ ("-" :> 5) @@ ("." :> 11) @@ ("/" :> 22) @@
    ("0" :> 35) @@ ("1" :> 36) @@ ("2" :> 37) @@ ("3" :> 38) @@ ("4" :> 39) @@ ("5" :> 40) @@
    ("6" :> 41) @@ ("7" :> 42) @@ ("8" :> 43) @@ ("9" :> 44) @@ (":" :> 8) @@ (";" :> 7) @@
    ("<" :> 29) @@ ("=" :> 30) @@ (">" :> 31) @@ ("?" :> 10) @@ ("@" :> 20) @@ ("A" :> 45) @@
    ("B" :> 46) @@ ("C" :> 47) @@ ("D" :> 48) @@ ("E" :> 49) @@ ("F" :> 50) @@ ("G" :> 51) @@
    ("H" :> 52) @@ ("I" :> 53) @@ ("J" :> 54) @@ ("K" :> 55) @@ ("L" :> 56) @@ ("M" :> 57) @@
    ("N" :> 58) @@ ("O" :> 59) @@ ("P" :> 60) @@ ("Q" :> 61) @@ ("R" :> 62) @@ ("S" :> 63) @@
    ("T" :> 64) @@ ("U" :> 65) @@ ("V" :> 66) @@ ("W" :> 67) @@ ("X" :> 68) @@ ("Y" :> 69) @@
    ("Z" :> 70) @@ ("[" :> 16) @@ ("\\" :> 23) @@ ("]" :> 17) @@ ("^" :> 27) @@ ("_" :> 4) @@
    ("a" :> 45) @@ ("b" :> 46) @@ ("c" :> 47) @@ ("d" :> 48) @@ ("e" :> 49) @@ ("f" :> 50) @@
    ("g" :> 51) @@ ("h" :> 52) @@ ("i" :> 53) @@ ("j" :> 54) @@ ("k" :> 55) @@ ("l" :> 56) @@
    ("m" :> 57) @@ ("n" :> 58) @@ ("o" :> 59) @@ ("p" :> 60) @@ ("q" :> 61) @@ ("r" :> 62) @@
    ("s" :> 63) @@ ("t" :> 64) @@ ("u" :> 65) @@ ("v" :> 66) @@ ("w" :> 67) @@ ("x" :> 68) @@
    ("y" :> 69) @@ ("z" :> 70) @@ ("{" :> 18) @@ ("|" :> 32) @@ ("}" :> 19) @@ ("~" :> 33)

IsUpper(c) == CodePoint[c] >= 65 /\ CodePoint[c] <= 90

\* Tertiary collation weight: a lower-case letter sorts before its capital.
CollationTertiary(c) == IF IsUpper(c) THEN 1 ELSE 0

RECURSIVE CompareSeq(_, _)
CompareSeq(a, b) ==
    IF a = <<>> /\ b = <<>> THEN 0
    ELSE IF a = <<>> THEN -1
    ELSE IF b = <<>> THEN 1
    ELSE IF Head(a) < Head(b) THEN -1
    ELSE IF Head(a) > Head(b) THEN 1
    ELSE CompareSeq(Tail(a), Tail(b))

\* The comparison Array.prototype.sort makes without a comparator: by code unit.
CompareCodeUnits(a, b) ==
    CompareSeq([i \in 1..Len(a) |-> CodePoint[a[i]]], [i \in 1..Len(b) |-> CodePoint[b[i]]])

\* Array.prototype.sort() with no comparator, as generate-object-inventory calls it.
DefaultCompare(a, b) == CompareCodeUnits(a, b)

\* a.localeCompare(b): primary weights first, case only to break a tie.
LocaleCompare(a, b) ==
    LET p == CompareSeq([i \in 1..Len(a) |-> CollationPrimary[a[i]]],
                        [i \in 1..Len(b) |-> CollationPrimary[b[i]]])
    IN  IF p # 0 THEN p
        ELSE CompareSeq([i \in 1..Len(a) |-> CollationTertiary(a[i])],
                        [i \in 1..Len(b) |-> CollationTertiary(b[i])])

RECURSIVE IndexOfFrom(_, _, _)
IndexOfFrom(s, pat, i) ==
    IF i + Len(pat) - 1 > Len(s) THEN 0
    ELSE IF SubSeq(s, i, i + Len(pat) - 1) = pat THEN i
    ELSE IndexOfFrom(s, pat, i + 1)

\* String.prototype.includes
Includes(s, pat) == IndexOfFrom(s, pat, 1) # 0

\* String.prototype.split with a non-empty separator
RECURSIVE Split(_, _)
Split(s, sep) ==
    LET i == IndexOfFrom(s, sep, 1)
    IN  IF i = 0 THEN <<s>>
        ELSE <<SubSeq(s, 1, i - 1)>> \o Split(SubSeq(s, i + Len(sep), Len(s)), sep)

\* Array.prototype.join
RECURSIVE Join(_, _)
Join(parts, sep) ==
    IF Len(parts) = 0 THEN <<>>
    ELSE IF Len(parts) = 1 THEN parts[1]
    ELSE parts[1] \o sep \o Join(Tail(parts), sep)

WhiteSpace == {" ", "\t", "\n"}

RECURSIVE TrimStart(_)
TrimStart(s) ==
    IF Len(s) > 0 /\ Head(s) \in WhiteSpace THEN TrimStart(Tail(s)) ELSE s

RECURSIVE TrimEnd(_)
TrimEnd(s) ==
    IF Len(s) > 0 /\ s[Len(s)] \in WhiteSpace THEN TrimEnd(SubSeq(s, 1, Len(s) - 1)) ELSE s

\* String.prototype.trim
Trim(s) == TrimEnd(TrimStart(s))

-----------------------------------------------------------------------------
\* Numbers

Num(w, f) == [w |-> w, f |-> f, nz |-> FALSE]
Int2Num(i) == Num(i, 0)

\* Math.round: to the nearest integer, a tie towards +Infinity; the result is
\* -0 for -0 and for -0.5 <= n < 0.
MathRound(n) ==
    IF n.f >= 5 THEN [w |-> n.w + 1, f |-> 0, nz |-> (n.w = -1)]
    ELSE [w |-> n.w, f |-> 0, nz |-> n.nz]

Digits == <<"0", "1", "2", "3", "4", "5", "6", "7", "8", "9">>

RECURSIVE NatToString(_)
NatToString(n) ==
    IF n < 10 THEN <<Digits[n + 1]>>
    ELSE NatToString(n \div 10) \o <<Digits[(n % 10) + 1]>>

\* Number::toString of an integer-valued number as a template literal formats
\* it: -0 prints as "0".
NumberToString(n) ==
    IF n.w < 0 THEN <<"-">> \o NatToString(-n.w) ELSE NatToString(n.w)

-----------------------------------------------------------------------------
\* The input: four layer files of records

sourceFiles == <<
    <<"d", "a", "t", "a", "/", "v", "1", ".", "2", ".", "0", "/", "l", "a", "y", "e", "r", "s", "/", "s", "k", "y", ".", "j", "s", "o", "n">>,
    <<"d", "a", "t", "a", "/", "v", "1", ".", "2", ".", "0", "/", "l", "a", "y", "e", "r", "s", "/", "s", "u", "r", "f", "a", "c", "e", ".", "j", "s", "o", "n">>,
    <<"d", "a", "t", "a", "/", "v", "1", ".", "2", ".", "0", "/", "l", "a", "y", "e", "r", "s", "/", "c", "a", "v", "e", ".", "j", "s", "o", "n">>,
    <<"d", "a", "t", "a", "/", "v", "1", ".", "2", ".", "0", "/", "l", "a", "y", "e", "r", "s", "/", "d", "e", "p", "t", "h", "s", ".", "j", "s", "o", "n">> >>

NumFiles == Len(sourceFiles)

\* JavaScript values of a record's fields, tagged with their type.
JString(s) == [t |-> "string", v |-> s]
JArray(a) == [t |-> "array", v |-> a]
JUndefined == [t |-> "undefined", v |-> <<>>]

Loc(x, y, z) == [x |-> x, y |-> y, z |-> z]

Record(type, name, locations, icons) ==
    [type |-> type, name |-> name, locations |-> locations, icons |-> icons]

\* Raw locations: LocA and LocB round to the same point, LocC and LocD to
\* points that differ only in the sign of a zero, LocE is LocA at the launch
\* height of the Hyrule Field tower, LocF has ties of both signs.
LocA == Loc(Num(100, 0), Num(5, 0), Num(200, 0))
LocB == Loc(Num(99, 6), Num(4, 5), Num(200, 4))
LocC == Loc(Num(-1, 5), Num(0, 4), Num(754, 0))
LocD == Loc(Num(0, 0), Num(0, 0), Num(754, 0))
LocE == Loc(Num(100, 0), Num(5, 0), Num(754, 0))
LocF == Loc(Num(-3, 5), Num(2, 5), Num(-1, 3))

\* Records of a layer file that generate-named-places is run on.
PlaceRecords == {
    Record("LocationMarker", JString(<<"H", "y", "r", "u", "l", "e", " ", "F", "i", "e", "l", "d", " ", "S", "k", "y", "v", "i", "e", "w", " ", "T", "o", "w", "e", "r">>), JArray(<<LocA>>), JUndefined),
    Record("LocationArea", JString(<<" ", "H", "y", "r", "u", "l", "e", " ", "F", "i", "e", "l", "d", " ", "S", "k", "y", "v", "i", "e", "w", " ", "T", "o", "w", "e", "r", "\n">>), JArray(<<LocE, LocB, LocF>>), JUndefined),
    Record("LocationMarker", JString(<<"R", "a", "n", "d", "o", "m", " ", "S", "k", "y", "v", "i", "e", "w", " ", "T", "o", "w", "e", "r">>), JArray(<<LocC, LocD>>), JUndefined),
    Record("LocationArea", JString(<<"a", "p", "p", "l", "e">>), JArray(<<LocF>>), JUndefined),
    Record("LocationMarker", JString(<<"H", "y", "r", "u", "l", "e", " ", "F", "i", "e", "l", "d", " ", "S", "k", "y", "v", "i", "e", "w", " ", "T", "o", "w", "e", "r">>), JArray(<<>>), JUndefined),
    Record("Shrine", JString(<<"a", "p", "p", "l", "e">>), JArray(<<LocA>>), JUndefined) }

\* Records of a layer file that generate-object-locations is run on.
ObjectRecords == {
    Record("Object", JString(<<"A", "p", "p", "l", "e", " ", ":", " ", "B", "a", "n", "a", "n", "a">>), JArray(<<LocA>>), JUndefined),
    Record("Object", JString(<<"a", "p", "p", "l", "e">>), JArray(<<LocB, LocC>>), JUndefined),
    Record("Object", JString(<<"B", "a", "n", "a", "n", "a">>), JArray(<<LocC, LocD>>), JUndefined),
    Record("Object", JString(<<"C", "h", "e", "r", "r", "y", " ", ":", " ", "a", "p", "p", "l", "e">>), JArray(<<LocF, LocA>>), JUndefined),
    Record("Object", JString(<<"A", "p", "p", "l", "e">>), JArray(<<>>), JArray(<<<<"I", "c", "o", "n", "_", "F", "o", "o", "d">>>>)),
    Record("Object", JString(<<>>), JArray(<<LocA>>), JUndefined) }

\* Records of a layer file that generate-object-inventory is run on.
InventoryRecords == {
    Record("Object", JString(<<"S", "w", "o", "r", "d">>), JArray(<<LocA>>), JArray(<<<<"I", "c", "o", "n", "_", "W", "e", "a", "p", "o", "n", "_", "T", "a", "g", "_", "S", "w", "o", "r", "d">>>>)),
    Record("Object", JString(<<"A", "p", "p", "l", "e", " ", ":", " ", "B", "a", "n", "a", "n", "a">>), JArray(<<LocA>>), JArray(<<<<"I", "c", "o", "n", "_", "F", "o", "o", "d">>, <<"T", "a", "g", "_", "F", "r", "u", "i", "t", "_", "I", "c", "o", "n">>>>)),
    Record("Object", JString(<<"A", "p", "p", "l", "e", " ", ":", " ", "B", "a", "n", "a", "n", "a">>), JArray(<<LocA>>), JArray(<<<<"I", "c", "o", "n", "_", "F", "o", "o", "d">>>>)),
    Record("Object", JString(<<"S", "w", "o", "r", "d">>), JArray(<<>>), JArray(<<<<"I", "c", "o", "n", "_", "W", "e", "a", "p", "o", "n", "_", "T", "a", "g", "_", "S", "w", "o", "r", "d">>>>)),
    Record("Object", JString(<<"a", "p", "p", "l", "e">>), JArray(<<LocC>>), JArray(<<<<"f", "o", "o", "d">>>>)),
    Record("Object", JString(<<"a", "p", "p", "l", "e">>), JArray(<<LocA>>), JUndefined) }

Scripts == {"places", "locations", "inventory"}

RECURSIVE SumLen(_, _)
SumLen(d, n) == IF n = 0 THEN 0 ELSE Len(d[n]) + SumLen(d, n - 1)

RecordsRead == SumLen(data, NumFiles)

-----------------------------------------------------------------------------
\* generate-named-places.js

\* new Point({x, y, z})
NewPoint(loc) == [y |-> MathRound(loc.y), x |-> MathRound(loc.x), z |-> MathRound(loc.z)]

\* Point.prototype.toString
PointToString(p) ==
    <<"(">> \o NumberToString(p.y) \o <<",">> \o NumberToString(p.x) \o <<",">> \o NumberToString(p.z) \o <<")">>

\* new Place(layer, name)
NewPlace(layer, name) == [layer |-> layer, name |-> name, points |-> <<>>]

\* Place.prototype.path
PlacePath(place) == place.layer \o <<"/">> \o place.name

\* Place.add without the comparison of string forms: a Set of Point objects
\* takes every new object.
RECURSIVE PlaceAddAll(_, _)
PlaceAddAll(points, new) ==
    IF new = <<>> THEN [points |-> points, count |-> 0]
    ELSE LET r == PlaceAddAll(Append(points, Head(new)), Tail(new))
         IN  [points |-> r.points, count |-> r.count + 1]

\* Place.prototype.add(...points): the Set of Point objects after the call
\* and the number of points added.
RECURSIVE PlaceAdd(_, _)
PlaceAdd(points, new) ==
    IF new = <<>> THEN [points |-> points, count |-> 0]
    ELSE IF \E i \in 1..Len(points) : PointToString(points[i]) = PointToString(Head(new))
         THEN PlaceAdd(points, Tail(new))
         ELSE LET r == PlaceAdd(Append(points, Head(new)), Tail(new))
              IN  [points |-> r.points, count |-> r.count + 1]

\* Place.prototype.toLine
PlaceToLine(place) ==
    PlacePath(place) \o <<" ">> \o
    Join([i \in 1..Len(place.points) |-> PointToString(place.points[i])], <<" ">>)

launchHeights == <<
    <<<<"E", "l", "d", "i", "n", " ", "C", "a", "n", "y", "o", "n", " ", "S", "k", "y", "v", "i", "e", "w", " ", "T", "o", "w", "e", "r">>, 1366>>,
    <<<<"G", "e", "r", "u", "d", "o", " ", "C", "a", "n", "y", "o", "n", " ", "S", "k", "y", "v", "i", "e", "w", " ", "T", "o", "w", "e", "r">>, 1453>>,
    <<<<"G", "e", "r", "u", "d", "o", " ", "H", "i", "g", "h", "l", "a", "n", "d", "s", " ", "S", "k", "y", "v", "i", "e", "w", " ", "T", "o", "w", "e", "r">>, 1054>>,
    <<<<"H", "y", "r", "u", "l", "e", " ", "F", "i", "e", "l", "d", " ", "S", "k", "y", "v", "i", "e", "w", " ", "T", "o", "w", "e", "r">>, 754>>,
    <<<<"L", "i", "n", "d", "o", "r", "'", "s", " ", "B", "r", "o", "w", " ", "S", "k", "y", "v", "i", "e", "w", " ", "T", "o", "w", "e", "r">>, 1053>>,
    <<<<"L", "o", "o", "k", "o", "u", "t", " ", "L", "a", "n", "d", "i", "n", "g", " ", "S", "k", "y", "v", "i", "e", "w", " ", "T", "o", "w", "e", "r">>, 754>>,
    <<<<"M", "o", "u", "n", "t", " ", "L", "a", "n", "a", "y", "r", "u", " ", "S", "k", "y", "v", "i", "e", "w", " ", "T", "o", "w", "e", "r">>, 1453>>,
    <<<<"P", "i", "k", "i", "d", "a", " ", "S", "t", "o", "n", "e", "g", "r", "o", "v", "e", " ", "S", "k", "y", "v", "i", "e", "w", " ", "T", "o", "w", "e", "r">>, 1054>>,
    <<<<"P", "o", "p", "l", "a", " ", "F", "o", "o", "t", "h", "i", "l", "l", "s", " ", "S", "k", "y", "v", "i", "e", "w", " ", "T", "o", "w", "e", "r">>, 754>>,
    <<<<"R", "o", "s", "p", "r", "o", " ", "P", "a", "s", "s", " ", "S", "k", "y", "v", "i", "e", "w", " ", "T", "o", "w", "e", "r">>, 1053>>,
    <<<<"S", "a", "h", "a", "s", "r", "a", " ", "S", "l", "o", "p", "e", " ", "S", "k", "y", "v", "i", "e", "w", " ", "T", "o", "w", "e", "r">>, 754>>,
    <<<<"T", "h", "y", "p", "h", "l", "o", " ", "R", "u", "i", "n", "s", " ", "S", "k", "y", "v", "i", "e", "w", " ", "T", "o", "w", "e", "r">>, 754>>,
    <<<<"U", "p", "l", "a", "n", "d", " ", "Z", "o", "r", "a", "n", "a", " ", "S", "k", "y", "v", "i", "e", "w", " ", "T", "o", "w", "e", "r">>, 1053>> >>

\* launchHeights.has(name)
LaunchHas(name) == \E i \in 1..Len(launchHeights) : launchHeights[i][1] = name

\* launchHeights.get(name), for a name the table has
LaunchGet(name) == launchHeights[CHOOSE i \in 1..Len(launchHeights) : launchHeights[i][1] = name][2]

\* isTower without the test of the layer.
IsTowerOnAnyLayer(place) ==
    /\ Includes(place.name, <<"S", "k", "y", "v", "i", "e", "w", " ", "T", "o", "w", "e", "r">>)
    /\ LaunchHas(place.name)

\* checkTower's isTower
IsTower(place) ==
    /\ place.layer = <<"S", "u", "r", "f", "a", "c", "e">>
    /\ Includes(place.name, <<"S", "k", "y", "v", "i", "e", "w", " ", "T", "o", "w", "e", "r">>)
    /\ LaunchHas(place.name)

\* checkTower without stats.points++ for the launch point.
CheckTowerUncounted(place, st) ==
    IF ~IsTower(place) \/ place.points = <<>> THEN [place |-> place, stats |-> st]
    ELSE LET base == place.points[1]
             launch == NewPoint(Loc(base.x, base.y, Int2Num(LaunchGet(place.name))))
             r == PlaceAdd(place.points, <<launch>>)
         IN  IF r.count # 0
             THEN [place |-> [place EXCEPT !.points = r.points],
                   stats |-> [st EXCEPT !.launches = @ + 1]]
             ELSE [place |-> place, stats |-> st]

\* checkTower(place, stats): the place and the stats after the call
CheckTower(place, st) ==
    IF ~IsTower(place) THEN [place |-> place, stats |-> st]
    ELSE IF place.points = <<>> THEN [place |-> place, stats |-> st]
    ELSE LET z == LaunchGet(place.name)
             base == place.points[1]
             launch == NewPoint(Loc(base.x, base.y, Int2Num(z)))
             r == PlaceAdd(place.points, <<launch>>)
         IN  IF r.count # 0
             THEN [place |-> [place EXCEPT !.points = r.points],
                   stats |-> [st EXCEPT !.points = @ + 1, !.launches = @ + 1]]
             ELSE [place |-> place, stats |-> st]

\* Index of the entry of the Map with key path, 0 if it has none.
PlaceIndex(m, path) ==
    IF \E i \in 1..Len(m) : PlacePath(m[i]) = path
    THEN CHOOSE i \in 1..Len(m) : PlacePath(m[i]) = path
    ELSE 0

\* getOrCreatePlace(layer, name, places): the Map after the call
GetOrCreatePlace(layer, name, m) ==
    IF PlaceIndex(m, layer \o <<"/">> \o name) = 0 THEN Append(m, NewPlace(layer, name)) ELSE m

\* isNamedPlace without the test of locations.length.
IsNamedPlaceAnyLocations(entry) ==
    /\ (entry.type = "LocationArea" \/ entry.type = "LocationMarker")
    /\ entry.name.t = "string"
    /\ Trim(entry.name.v) # <<>>
    /\ entry.locations.t = "array"

\* isNamedPlace(entry)
IsNamedPlace(entry) ==
    /\ (entry.type = "LocationArea" \/ entry.type = "LocationMarker")
    /\ entry.name.t = "string"
    /\ Trim(entry.name.v) # <<>>
    /\ entry.locations.t = "array"
    /\ Len(entry.locations.v) > 0

\* The layer taken from the number of files read so far, not from the path.
GetLayerByFilesRead(path) == <<<<"S", "k", "y">>, <<"S", "u", "r", "f", "a", "c", "e">>, <<"C", "a", "v", "e">>, <<"D", "e", "p", "t", "h", "s">>>>[stats.files + 1]

\* getLayerFromPath(path)
GetLayerFromPath(path) ==
    IF Includes(path, <<"d", "e", "p", "t", "h", "s">>) THEN <<"D", "e", "p", "t", "h", "s">>
    ELSE IF Includes(path, <<"s", "k", "y">>) THEN <<"S", "k", "y">>
    ELSE IF Includes(path, <<"c", "a", "v", "e">>) THEN <<"C", "a", "v", "e">>
    ELSE <<"S", "u", "r", "f", "a", "c", "e">>

\* One iteration of processEntries' loop: the Map and the stats after it.
ProcessEntry(layerName, entry, m, st) ==
    IF ~IsNamedPlace(entry) THEN [places |-> m, stats |-> st]
    ELSE LET name == Trim(entry.name.v)
             m1 == GetOrCreatePlace(layerName, name, m)
             i == PlaceIndex(m1, layerName \o <<"/">> \o name)
             points == [k \in 1..Len(entry.locations.v) |-> NewPoint(entry.locations.v[k])]
             r == PlaceAdd(m1[i].points, points)
             t == CheckTower([m1[i] EXCEPT !.points = r.points],
                             [st EXCEPT !.points = @ + r.count])
         IN  [places |-> [m1 EXCEPT ![i] = t.place],
              stats |-> [t.stats EXCEPT !.places = @ + 1]]

-----------------------------------------------------------------------------
\* generate-object-locations.js

\* formatPoint({x, y, z})
FormatPoint(loc) ==
    <<"(">> \o NumberToString(MathRound(loc.y)) \o <<",">> \o NumberToString(MathRound(loc.x))
        \o <<",">> \o NumberToString(MathRound(loc.z)) \o <<")">>

\* isValidRecord(obj) of generate-object-locations
IsValidRecord(obj) ==
    /\ obj.name.t = "string"
    /\ Len(obj.name.v) > 0
    /\ obj.locations.t = "array"
    /\ Len(obj.locations.v) > 0

\* A Set that puts a new element first.
SetAddFirst(set, x) ==
    IF \E i \in 1..Len(set) : set[i] = x THEN set ELSE <<x>> \o set

\* Set.prototype.add on a Set of strings, kept in insertion order
SetAdd(set, x) ==
    IF \E i \in 1..Len(set) : set[i] = x THEN set ELSE Append(set, x)

RECURSIVE SetAddAll(_, _)
SetAddAll(set, xs) ==
    IF xs = <<>> THEN set ELSE SetAddAll(SetAdd(set, Head(xs)), Tail(xs))

\* Index of label's entry in the Map, 0 if it has none.
ObjectIndex(m, label) ==
    IF \E i \in 1..Len(m) : m[i].name = label
    THEN CHOOSE i \in 1..Len(m) : m[i].name = label
    ELSE 0

\* The body of extractEntries' inner loop for one label: get the label's Set
\* or a new one, add every coordinate, set it back.
AddLabel(m, label, coords) ==
    LET i == ObjectIndex(m, label)
    IN  IF i = 0 THEN Append(m, [name |-> label, points |-> SetAddAll(<<>>, coords)])
        ELSE [m EXCEPT ![i].points = SetAddAll(@, coords)]

\* The labels paired with the locations by position.
RECURSIVE AddLabelsPairwise(_, _, _)
AddLabelsPairwise(m, labels, coords) ==
    IF labels = <<>> THEN m
    ELSE AddLabelsPairwise(AddLabel(m, Head(labels), IF coords = <<>> THEN <<>> ELSE <<Head(coords)>>),
                           Tail(labels), IF coords = <<>> THEN <<>> ELSE Tail(coords))

\* extractEntries' inner loop over the labels of one record
RECURSIVE AddLabels(_, _, _)
AddLabels(m, labels, coords) ==
    IF labels = <<>> THEN m
    ELSE AddLabels(AddLabel(m, Head(labels), coords), Tail(labels), coords)

\* One iteration of extractEntries' loop in generate-object-locations: the Map after it.
ExtractLocations(obj, m) ==
    IF ~IsValidRecord(obj) THEN m
    ELSE LET labels == Split(obj.name.v, <<" ", ":", " ">>)
             coords == [k \in 1..Len(obj.locations.v) |-> FormatPoint(obj.locations.v[k])]
         IN  AddLabels(m, labels, coords)

\* The line main maps an entry of the Map to.
ObjectToLine(entry) == entry.name \o <<" ">> \o Join(entry.points, <<" ">>)

-----------------------------------------------------------------------------
\* generate-object-inventory.js

\* ObjectComponent.from with a filter that drops Icon only.
ObjectComponentFromKeepingTag(iconRaw, labelRaw) ==
    LET segments == SelectSeq(Split(iconRaw, <<"_">>), LAMBDA s : s # <<"I", "c", "o", "n">>)
    IN  [icon |-> Join(segments, <<"/">>), label |-> labelRaw]

\* ObjectComponent.from(iconRaw, labelRaw)
ObjectComponentFrom(iconRaw, labelRaw) ==
    LET segments == SelectSeq(Split(iconRaw, <<"_">>), LAMBDA s : s # <<"I", "c", "o", "n">> /\ s # <<"T", "a", "g">>)
    IN  [icon |-> Join(segments, <<"/">>), label |-> labelRaw]

\* ObjectComponent.prototype.toString
ObjectComponentToString(c) == c.icon \o <<"/">> \o c.label

\* isValidRecord(obj) of generate-object-inventory
IsValidInventoryRecord(obj) ==
    /\ obj.name.t = "string"
    /\ Len(obj.name.v) > 0
    /\ obj.icons.t = "array"
    /\ Len(obj.icons.v) > 0

RECURSIVE AddComponents(_, _, _, _)
AddComponents(set, labels, icons, i) ==
    IF i > Len(labels) THEN set
    ELSE AddComponents(SetAdd(set, ObjectComponentToString(ObjectComponentFrom(icons[i], labels[i]))),
                       labels, icons, i + 1)

\* One iteration of extractEntries' loop in generate-object-inventory: the Set after it.
ExtractInventory(obj, set) ==
    IF ~IsValidInventoryRecord(obj) THEN set
    ELSE LET labels == Split(obj.name.v, <<" ", ":", " ">>)
             icons == obj.icons.v
         IN  IF Len(labels) # Len(icons) THEN set
             ELSE AddComponents(set, labels, icons, 1)

-----------------------------------------------------------------------------
\* The runs

Init ==
    /\ script \in Scripts
    /\ pc = "loop"
    /\ fileIdx = 1
    /\ fs = [i \in 1..NumFiles |-> "unread"]
    /\ data = [i \in 1..NumFiles |-> <<>>]
    /\ objects = <<>>
    /\ places = <<>>
    /\ stats = [files |-> 0, places |-> 0, points |-> 0, launches |-> 0]
    /\ lines = <<>>
    /\ output = <<>>
    /\ written = <<>>

\* main's loop, fs.existsSync(file) false: continue
SkipMissing ==
    /\ pc = "loop"
    /\ fileIdx <= NumFiles
    /\ fs' = [fs EXCEPT ![fileIdx] = "missing"]
    /\ fileIdx' = fileIdx + 1
    /\ UNCHANGED <<script, pc, data, objects, places, stats, lines, output, written>>

\* A file that fails to parse treated as a missing one.
ParseFailsAndContinues ==
    /\ pc = "loop"
    /\ fileIdx <= NumFiles
    /\ fs' = [fs EXCEPT ![fileIdx] = "malformed"]
    /\ fileIdx' = fileIdx + 1
    /\ UNCHANGED <<script, pc, data, objects, places, stats, lines, output, written>>

\* main's loop, JSON.parse throws: the exception leaves main
ParseFails ==
    /\ pc = "loop"
    /\ fileIdx <= NumFiles
    /\ fs' = [fs EXCEPT ![fileIdx] = "malformed"]
    /\ pc' = "aborted"
    /\ UNCHANGED <<script, fileIdx, data, objects, places, stats, lines, output, written>>

\* main's loop, the file exists and parses: its entries are processed next
OpenFile ==
    /\ pc = "loop"
    /\ fileIdx <= NumFiles
    /\ fs' = [fs EXCEPT ![fileIdx] = "present"]
    /\ pc' = "entries"
    /\ UNCHANGED <<script, fileIdx, data, objects, places, stats, lines, output, written>>

\* processEntries, one entry of the current file
PlacesEntry(rec) ==
    /\ script = "places"
    /\ pc = "entries"
    /\ RecordsRead < MaxRecords
    /\ data' = [data EXCEPT ![fileIdx] = Append(@, rec)]
    /\ LET r == ProcessEntry(GetLayerFromPath(sourceFiles[fileIdx]), rec, places, stats)
       IN  places' = r.places /\ stats' = r.stats
    /\ UNCHANGED <<script, pc, fileIdx, fs, objects, lines, output, written>>

\* main of generate-named-places after processEntries returns: stats.files++
PlacesEndOfFile ==
    /\ script = "places"
    /\ pc = "entries"
    /\ stats' = [stats EXCEPT !.files = @ + 1]
    /\ fileIdx' = fileIdx + 1
    /\ pc' = "loop"
    /\ UNCHANGED <<script, fs, data, objects, places, lines, output, written>>

\* The paths compared by code unit.
ComparePlacesByCodeUnits(a, b) == CompareCodeUnits(PlacePath(a), PlacePath(b))

\* The comparator of main's sort: (a, b) => a.path.localeCompare(b.path)
ComparePlaces(a, b) == LocaleCompare(PlacePath(a), PlacePath(b))

\* Array.prototype.sort is stable: an element goes after those it does not
\* compare below.
RECURSIVE InsertPlace(_, _)
InsertPlace(sorted, p) ==
    IF sorted = <<>> THEN <<p>>
    ELSE IF ComparePlaces(p, Head(sorted)) < 0 THEN <<p>> \o sorted
    ELSE <<Head(sorted)>> \o InsertPlace(Tail(sorted), p)

RECURSIVE SortPlaces(_, _)
SortPlaces(sorted, rest) ==
    IF rest = <<>> THEN sorted ELSE SortPlaces(InsertPlace(sorted, Head(rest)), Tail(rest))

\* [...places.values()].sort((a, b) => a.path.localeCompare(b.path))
PlacesSorted(m) == SortPlaces(<<>>, m)

\* The lines of the sorted places: place.toLine() of each, with the key and
\* the tokens it is composed from.
PlaceLines(sorted) ==
    [i \in 1..Len(sorted) |->
        [key |-> PlacePath(sorted[i]),
         tokens |-> [k \in 1..Len(sorted[i].points) |-> PointToString(sorted[i].points[k])],
         text |-> PlaceToLine(sorted[i])]]

\* The text main writes: output.join("\n") + "\n"
FileText(ls) == Join([i \in 1..Len(ls) |-> ls[i].text], <<"\n">>) \o <<"\n">>

\* main of generate-named-places after the loop: sort, toLine, writeFileSync
WritePlaces ==
    /\ script = "places"
    /\ pc = "loop"
    /\ fileIdx = NumFiles + 1
    /\ output' = PlaceLines(PlacesSorted(places))
    /\ written' = Append(written, FileText(output'))
    /\ pc' = "done"
    /\ UNCHANGED <<script, fileIdx, fs, data, objects, places, stats, lines>>

\* extractEntries of generate-object-locations, one entry of the current file
LocationsEntry(rec) ==
    /\ script = "locations"
    /\ pc = "entries"
    /\ RecordsRead < MaxRecords
    /\ data' = [data EXCEPT ![fileIdx] = Append(@, rec)]
    /\ objects' = ExtractLocations(rec, objects)
    /\ UNCHANGED <<script, pc, fileIdx, fs, places, stats, lines, output, written>>

\* main of generate-object-locations after extractEntries returns
LocationsEndOfFile ==
    /\ script = "locations"
    /\ pc = "entries"
    /\ fileIdx' = fileIdx + 1
    /\ pc' = "loop"
    /\ UNCHANGED <<script, fs, data, objects, places, stats, lines, output, written>>

\* The comparator of main's sort: ([a], [b]) => a.localeCompare(b)
CompareObjects(a, b) == LocaleCompare(a.name, b.name)

RECURSIVE InsertObject(_, _)
InsertObject(sorted, e) ==
    IF sorted = <<>> THEN <<e>>
    ELSE IF CompareObjects(e, Head(sorted)) < 0 THEN <<e>> \o sorted
    ELSE <<Head(sorted)>> \o InsertObject(Tail(sorted), e)

RECURSIVE SortObjects(_, _)
SortObjects(sorted, rest) ==
    IF rest = <<>> THEN sorted ELSE SortObjects(InsertObject(sorted, Head(rest)), Tail(rest))

\* [...objects.entries()].sort(([a], [b]) => a.localeCompare(b))
ObjectsSorted(m) == SortObjects(<<>>, m)

\* The lines of the sorted entries, with the key and the tokens each is
\* composed from.
ObjectLines(sorted) ==
    [i \in 1..Len(sorted) |->
        [key |-> sorted[i].name, tokens |-> sorted[i].points, text |-> ObjectToLine(sorted[i])]]

\* main of generate-object-locations after the loop: sort, map, writeFileSync
WriteLocations ==
    /\ script = "locations"
    /\ pc = "loop"
    /\ fileIdx = NumFiles + 1
    /\ output' = ObjectLines(ObjectsSorted(objects))
    /\ written' = Append(written, FileText(output'))
    /\ pc' = "done"
    /\ UNCHANGED <<script, fileIdx, fs, data, objects, places, stats, lines>>

\* extractEntries of generate-object-inventory, one entry of the current file
InventoryEntry(rec) ==
    /\ script = "inventory"
    /\ pc = "entries"
    /\ RecordsRead < MaxRecords
    /\ data' = [data EXCEPT ![fileIdx] = Append(@, rec)]
    /\ lines' = ExtractInventory(rec, lines)
    /\ UNCHANGED <<script, pc, fileIdx, fs, objects, places, stats, output, written>>

\* main of generate-object-inventory after extractEntries returns
InventoryEndOfFile ==
    /\ script = "inventory"
    /\ pc = "entries"
    /\ fileIdx' = fileIdx + 1
    /\ pc' = "loop"
    /\ UNCHANGED <<script, fs, data, objects, places, stats, lines, output, written>>

RECURSIVE InsertLine(_, _)
InsertLine(sorted, l) ==
    IF sorted = <<>> THEN <<l>>
    ELSE IF DefaultCompare(l, Head(sorted)) < 0 THEN <<l>> \o sorted
    ELSE <<Head(sorted)>> \o InsertLine(Tail(sorted), l)

RECURSIVE SortLines(_, _)
SortLines(sorted, rest) ==
    IF rest = <<>> THEN sorted ELSE SortLines(InsertLine(sorted, Head(rest)), Tail(rest))

\* [...lines].sort()
LinesSorted(set) == SortLines(<<>>, set)

\* The sorted lines; an inventory line is its own key and has no tokens.
InventoryLines(sorted) ==
    [i \in 1..Len(sorted) |-> [key |-> sorted[i], tokens |-> <<>>, text |-> sorted[i]]]

\* main of generate-object-inventory after the loop: sort, writeFileSync
WriteInventory ==
    /\ script = "inventory"
    /\ pc = "loop"
    /\ fileIdx = NumFiles + 1
    /\ output' = InventoryLines(LinesSorted(lines))
    /\ written' = Append(written, FileText(output'))
    /\ pc' = "done"
    /\ UNCHANGED <<script, fileIdx, fs, data, objects, places, stats, lines>>

Next ==
    \/ SkipMissing
    \/ ParseFails
    \/ OpenFile
    \/ \E rec \in PlaceRecords : PlacesEntry(rec)
    \/ PlacesEndOfFile
    \/ WritePlaces
    \/ \E rec \in ObjectRecords : LocationsEntry(rec)
    \/ LocationsEndOfFile
    \/ WriteLocations
    \/ \E rec \in InventoryRecords : InventoryEntry(rec)
    \/ InventoryEndOfFile
    \/ WriteInventory

Spec == Init /\ [][Next]_vars

-----------------------------------------------------------------------------
\* What the claims are stated with

Elems(s) == {s[i] : i \in 1..Len(s)}

Last(s) == s[Len(s)]

\* The records read so far, in the order read, each with the file it is from.
RECURSIVE ReadFrom(_)
ReadFrom(f) ==
    IF f > NumFiles THEN <<>>
    ELSE [k \in 1..Len(data[f]) |-> [file |-> f, rec |-> data[f][k]]] \o ReadFrom(f + 1)

Read == ReadFrom(1)

\* The record an entry step has just processed.
StepRecord == Last(data[fileIdx])'

\* The point tokens of an emitted line, parsed back from its text: what
\* follows the key and one space, split at the spaces.
LineTokens(l) == Split(SubSeq(l.text, Len(l.key) + 2, Len(l.text)), <<" ">>)

NoRepeat(s) == \A a, b \in 1..Len(s) : a # b => s[a] # s[b]

\* C1: no emitted line of the object-location or the named-place pipeline
\* holds the same coordinate token twice, a tower's line with its launch
\* point included.
C1_Dedup ==
    script \in {"locations", "places"} =>
        \A i \in 1..Len(output) :
            /\ LineTokens(output[i]) = output[i].tokens
            /\ NoRepeat(LineTokens(output[i]))

\* C1 witness: the tower's line, after two records gave the place five
\* locations of which one repeats the base and one the launch point.
C1_Witness ==
    /\ script = "places"
    /\ pc = "done"
    /\ stats.launches = 1
    /\ stats.places = 2
    /\ Len(output) = 1
    /\ output[1].key = <<"S", "u", "r", "f", "a", "c", "e", "/", "H", "y", "r", "u", "l", "e", " ", "F", "i", "e", "l", "d", " ", "S", "k", "y", "v", "i", "e", "w", " ", "T", "o", "w", "e", "r">>
    /\ Len(LineTokens(output[1])) = 3

Ascending(Cmp(_, _)) ==
    \A i \in 1..(Len(output) - 1) : Cmp(output[i].key, output[i + 1].key) <= 0

\* C2 as claimed: in every emitted file the keys of adjacent lines ascend
\* under code-point comparison.
C2_SortedByCodePoint == Ascending(CompareCodeUnits)

\* C2 as amended: the keys of adjacent lines ascend under the comparison the
\* pipeline sorts with: localeCompare in the object-location and named-place
\* pipelines, code units of the whole line in the inventory pipeline.
C2_SortedByComparator ==
    IF script = "inventory" THEN Ascending(CompareCodeUnits) ELSE Ascending(LocaleCompare)

\* C2 witness: an emitted file in which a key in lower case precedes a
\* capitalised one that code-point order puts first.
C2_Witness ==
    /\ pc = "done"
    /\ script = "locations"
    /\ \E i \in 1..(Len(output) - 1) :
        /\ output[i].key = <<"a", "p", "p", "l", "e">>
        /\ output[i + 1].key = <<"B", "a", "n", "a", "n", "a">>
        /\ CompareCodeUnits(output[i].key, output[i + 1].key) > 0

EmptyLocations(rec) == rec.locations.t = "array" /\ rec.locations.v = <<>>

LayerOfFile == <<<<"S", "k", "y">>, <<"S", "u", "r", "f", "a", "c", "e">>, <<"C", "a", "v", "e">>, <<"D", "e", "p", "t", "h", "s">>>>

\* Rounding to the nearest integer, a tie upwards, on the tenths of a number.
RoundedInt(n) == (10 * n.w + n.f + 5) \div 10

IntToken(i) == IF i < 0 THEN <<"-">> \o NatToString(-i) ELSE NatToString(i)

\* The token "(y,x,z)" of a raw location.
Token(loc) ==
    <<"(">> \o IntToken(RoundedInt(loc.y)) \o <<",">> \o IntToken(RoundedInt(loc.x)) \o <<",">>
        \o IntToken(RoundedInt(loc.z)) \o <<")">>

Tokens(rec) == [k \in 1..Len(rec.locations.v) |-> Token(rec.locations.v[k])]

\* A record the named-place pipeline takes: of one of the two types, with a
\* name that is not blank and at least one location.
Qualifies(rec) ==
    /\ rec.type \in {"LocationArea", "LocationMarker"}
    /\ rec.name.t = "string"
    /\ \E i \in 1..Len(rec.name.v) : rec.name.v[i] \notin WhiteSpace
    /\ rec.locations.t = "array"
    /\ rec.locations.v # <<>>

\* The qualifying records among those read.
Qualifying(read) == SelectSeq(read, LAMBDA t : Qualifies(t.rec))

KeyOfRead(t) == LayerOfFile[t.file] \o <<"/">> \o Trim(t.rec.name.v)

\* The records among the qualifying ones q that share the key layer/name.
ReadOfKey(q, key) == SelectSeq(q, LAMBDA t : KeyOfRead(t) = key)

TowerNames == {launchHeights[i][1] : i \in 1..Len(launchHeights)}

\* The launch point of a tower: x and y of the first location of the first
\* record of its key, z the height of the table.
LaunchToken(name, first) ==
    <<"(">> \o IntToken(RoundedInt(first.y)) \o <<",">> \o IntToken(RoundedInt(first.x)) \o <<",">>
        \o IntToken(LaunchGet(name)) \o <<")">>

\* The tokens the records of a place gave it, and its launch point if it is
\* a tower of the Surface layer.
PointsOfRecords(recs) == UNION {Elems(Tokens(recs[i].rec)) : i \in 1..Len(recs)}

LaunchOf(p, recs) ==
    IF p.layer = <<"S", "u", "r", "f", "a", "c", "e">> /\ p.name \in TowerNames
    THEN {LaunchToken(p.name, recs[1].rec.locations.v[1])}
    ELSE {}

\* C4: the places are those of the keys of the qualifying records, and the
\* point set of each is the set of the points of the records of its key
\* plus, for a Surface place named with one of the thirteen tower names and
\* for no other, one launch point over the first point added.
C4_TowerInjection ==
    script = "places" =>
      LET q == Qualifying(Read)
      IN
        /\ Cardinality(TowerNames) = 13
        /\ {PlacePath(places[i]) : i \in 1..Len(places)} = {KeyOfRead(q[i]) : i \in 1..Len(q)}
        /\ \A i \in 1..Len(places) :
            LET p == places[i]
                recs == ReadOfKey(q, PlacePath(p))
                expected == PointsOfRecords(recs) \cup LaunchOf(p, recs)
            IN  /\ {PointToString(p.points[k]) : k \in 1..Len(p.points)} = expected
                /\ Len(p.points) = Cardinality(expected)
                /\ LaunchOf(p, recs) # {} =>
                      /\ p.points[1].x = MathRound(recs[1].rec.locations.v[1].x)
                      /\ p.points[1].y = MathRound(recs[1].rec.locations.v[1].y)

\* C4 witness: the same tower record read from the Sky file and from the
\* Surface file: the Sky place holds its one point, the Surface place the
\* point and the launch point at 754.
C4_Witness ==
    /\ script = "places"
    /\ Len(places) = 2
    /\ places[1].layer = <<"S", "k", "y">> /\ places[1].name = <<"H", "y", "r", "u", "l", "e", " ", "F", "i", "e", "l", "d", " ", "S", "k", "y", "v", "i", "e", "w", " ", "T", "o", "w", "e", "r">>
    /\ [k \in 1..Len(places[1].points) |-> PointToString(places[1].points[k])] = <<<<"(", "5", ",", "1", "0", "0", ",", "2", "0", "0", ")">>>>
    /\ places[2].layer = <<"S", "u", "r", "f", "a", "c", "e">> /\ places[2].name = <<"H", "y", "r", "u", "l", "e", " ", "F", "i", "e", "l", "d", " ", "S", "k", "y", "v", "i", "e", "w", " ", "T", "o", "w", "e", "r">>
    /\ [k \in 1..Len(places[2].points) |-> PointToString(places[2].points[k])]
          = <<<<"(", "5", ",", "1", "0", "0", ",", "2", "0", "0", ")">>, <<"(", "5", ",", "1", "0", "0", ",", "7", "5", "4", ")">>>>

\* A record the object-location pipeline takes.
ValidObject(rec) ==
    /\ rec.name.t = "string" /\ rec.name.v # <<>>
    /\ rec.locations.t = "array" /\ rec.locations.v # <<>>

Labels(rec) == Split(rec.name.v, <<" ", ":", " ">>)

\* The valid records among those read, each with its labels and its tokens.
Valid(read) ==
    LET v == SelectSeq(read, LAMBDA t : ValidObject(t.rec))
    IN  [i \in 1..Len(v) |-> [labels |-> Labels(v[i].rec), tokens |-> Tokens(v[i].rec)]]

\* C5: the labels of the aggregate are those the valid records list, each
\* once, and the point set of a label is the union of all the points of
\* every valid record that lists it.
C5_LabelSplitting ==
    script = "locations" =>
      LET v == Valid(Read)
      IN
        /\ {objects[i].name : i \in 1..Len(objects)} = UNION {Elems(v[i].labels) : i \in 1..Len(v)}
        /\ NoRepeat([i \in 1..Len(objects) |-> objects[i].name])
        /\ \A i \in 1..Len(objects) :
              Elems(objects[i].points)
                 = UNION {Elems(v[k].tokens) :
                            k \in {j \in 1..Len(v) : objects[i].name \in Elems(v[j].labels)}}

\* C5 witness: after "Apple : Banana" with one location and "Cherry : apple"
\* with two, each of the four labels holds every point of its record.
C5_Witness ==
    /\ script = "locations"
    /\ [i \in 1..Len(objects) |-> objects[i].name] = <<<<"A", "p", "p", "l", "e">>, <<"B", "a", "n", "a", "n", "a">>, <<"C", "h", "e", "r", "r", "y">>, <<"a", "p", "p", "l", "e">>>>
    /\ objects[1].points = <<<<"(", "5", ",", "1", "0", "0", ",", "2", "0", "0", ")">>>>
    /\ objects[2].points = <<<<"(", "5", ",", "1", "0", "0", ",", "2", "0", "0", ")">>>>
    /\ objects[3].points = <<<<"(", "3", ",", "-", "2", ",", "-", "1", ")">>, <<"(", "5", ",", "1", "0", "0", ",", "2", "0", "0", ")">>>>
    /\ objects[4].points = objects[3].points

\* C6: the output file is written at most once, never in a run in which a
\* file failed to parse, and only in a finished run whose every file was
\* either found missing or parsed and processed.
C6_NoPartialOutput ==
    /\ Len(written) <= 1
    /\ (\E f \in 1..NumFiles : fs[f] = "malformed") => (written = <<>> /\ pc = "aborted")
    /\ pc = "aborted" => written = <<>>
    /\ written # <<>> =>
          /\ pc = "done"
          /\ fileIdx = NumFiles + 1
          /\ \A f \in 1..NumFiles : fs[f] \in {"missing", "present"}
    /\ pc = "done" => Len(written) = 1

\* C6 witness: the second file fails to parse after the records of the
\* first were folded into the aggregate; nothing is written.
C6_Witness ==
    /\ pc = "aborted"
    /\ script = "locations"
    /\ fs[1] = "present"
    /\ fs[2] = "malformed"
    /\ Len(data[1]) = 2
    /\ Len(objects) >= 2
    /\ written = <<>>

\* The aggregates a run holds after the records read so far, whatever files
\* they came from and whatever files were missing: the records folded in the
\* order read, a named place tagged with the layer of its file.
RECURSIVE FoldPlaces(_, _)
FoldPlaces(acc, recs) ==
    IF recs = <<>> THEN acc
    ELSE FoldPlaces(ProcessEntry(LayerOfFile[Head(recs).file], Head(recs).rec, acc.places, acc.stats),
                    Tail(recs))

RECURSIVE FoldObjects(_, _)
FoldObjects(acc, recs) ==
    IF recs = <<>> THEN acc ELSE FoldObjects(ExtractLocations(Head(recs).rec, acc), Tail(recs))

RECURSIVE FoldLines(_, _)
FoldLines(acc, recs) ==
    IF recs = <<>> THEN acc ELSE FoldLines(ExtractInventory(Head(recs).rec, acc), Tail(recs))

NoPlaces == [places |-> <<>>, stats |-> [files |-> 0, places |-> 0, points |-> 0, launches |-> 0]]

FilesRead == Cardinality({f \in 1..NumFiles : fs[f] = "present" /\ f < fileIdx})

\* C7: a missing file gives no record and is not counted as read; the
\* aggregate, and the output of a finished run, are those of the records of
\* the files present, each named place under the layer of its own file, so a
\* missing file and a present file without records give the same; only a
\* file that fails to parse aborts a run, and a run not yet ended can skip a
\* file, end one or, past the last, write.
C7_MissingIsEmpty ==
    /\ \A f \in 1..NumFiles : fs[f] = "missing" => data[f] = <<>>
    /\ pc = "aborted" => \E f \in 1..NumFiles : fs[f] = "malformed"
    /\ \/ pc \in {"done", "aborted"}
       \/ ENABLED (SkipMissing \/ PlacesEndOfFile \/ LocationsEndOfFile \/ InventoryEndOfFile)
       \/ (pc = "loop" /\ fileIdx = NumFiles + 1 /\ script \in Scripts)
    /\ script = "places" =>
          LET r == FoldPlaces(NoPlaces, Read)
          IN  /\ stats.files = FilesRead
              /\ places = r.places
              /\ stats = [r.stats EXCEPT !.files = FilesRead]
              /\ pc = "done" => output = PlaceLines(PlacesSorted(r.places))
    /\ script = "locations" =>
          LET r == FoldObjects(<<>>, Read)
          IN  /\ objects = r
              /\ pc = "done" => output = ObjectLines(ObjectsSorted(r))
    /\ script = "inventory" =>
          LET r == FoldLines(<<>>, Read)
          IN  /\ lines = r
              /\ pc = "done" => output = InventoryLines(LinesSorted(r))
    /\ pc = "done" => written = <<FileText(output)>>

\* C7 witness: a finished run of the named-place pipeline that found only
\* the Surface file, counted one file read, and wrote the tower under the
\* Surface layer with its launch point.
C7_Witness ==
    /\ script = "places"
    /\ pc = "done"
    /\ fs = <<"missing", "present", "missing", "missing">>
    /\ stats.files = 1
    /\ Len(written) = 1
    /\ Len(output) = 1
    /\ output[1].text = <<"S", "u", "r", "f", "a", "c", "e", "/", "H", "y", "r", "u", "l", "e", " ", "F", "i", "e", "l", "d", " ", "S", "k", "y", "v", "i", "e", "w", " ", "T", "o", "w", "e", "r", " ", "(", "5", ",", "1", "0", "0", ",", "2", "0", "0", ")", " ", "(", "5", ",", "1", "0", "0", ",", "7", "5", "4", ")">>

\* The icon path of the tokens of an icon: those other than Icon and Tag,
\* with a slash between them.
RECURSIVE IconPath(_)
IconPath(tokens) ==
    IF tokens = <<>> THEN <<>>
    ELSE IF Head(tokens) \in {<<"I", "c", "o", "n">>, <<"T", "a", "g">>} THEN IconPath(Tail(tokens))
    ELSE LET rest == IconPath(Tail(tokens))
         IN  IF rest = <<>> THEN Head(tokens) ELSE Head(tokens) \o <<"/">> \o rest

InventoryLine(icon, label) == IconPath(Split(icon, <<"_">>)) \o <<"/">> \o label

\* C8: a record with a name and as many icons as labels adds the line of
\* each icon with its label and nothing else, icon Icon_Weapon_Tag_Sword with
\* label Sword the line Weapon/Sword/Sword; a record whose icons differ in
\* number from its labels adds no line.
C8_InventoryExtraction ==
    [][(script = "inventory" /\ data' # data) =>
        LET rec == StepRecord
        IN  /\ (rec.name.t = "string" /\ rec.name.v # <<>> /\ rec.icons.t = "array") =>
                  IF Len(rec.icons.v) = Len(Labels(rec))
                  THEN Elems(lines') = Elems(lines) \cup
                          {InventoryLine(rec.icons.v[i], Labels(rec)[i]) : i \in 1..Len(rec.icons.v)}
                  ELSE lines' = lines
            /\ (rec.name = JString(<<"S", "w", "o", "r", "d">>) /\ rec.icons = JArray(<<<<"I", "c", "o", "n", "_", "W", "e", "a", "p", "o", "n", "_", "T", "a", "g", "_", "S", "w", "o", "r", "d">>>>)) =>
                  <<"W", "e", "a", "p", "o", "n", "/", "S", "w", "o", "r", "d", "/", "S", "w", "o", "r", "d">> \in Elems(lines')]_vars

\* C8 witness: the Sword record gave its line, and the record with two
\* labels and one icon that followed gave none.
C8_Witness ==
    /\ script = "inventory"
    /\ RecordsRead = 2
    /\ Last(Read).rec.name.v = <<"A", "p", "p", "l", "e", " ", ":", " ", "B", "a", "n", "a", "n", "a">>
    /\ Len(Last(Read).rec.icons.v) = 1
    /\ lines = <<<<"W", "e", "a", "p", "o", "n", "/", "S", "w", "o", "r", "d", "/", "S", "w", "o", "r", "d">>>>

RECURSIVE FirstOccurrences(_, _)
FirstOccurrences(seen, s) ==
    IF s = <<>> THEN seen
    ELSE IF Head(s) \in Elems(seen) THEN FirstOccurrences(seen, Tail(s))
    ELSE FirstOccurrences(Append(seen, Head(s)), Tail(s))

RECURSIVE TokensInOrder(_)
TokensInOrder(recs) ==
    IF recs = <<>> THEN <<>> ELSE Tokens(Head(recs).rec) \o TokensInOrder(Tail(recs))

RECURSIVE Concat(_)
Concat(ss) == IF ss = <<>> THEN <<>> ELSE Head(ss) \o Concat(Tail(ss))

\* The tokens of a label in the order the valid records v give them.
TokensOfLabel(v, label) ==
    LET of == SelectSeq(v, LAMBDA t : label \in Elems(t.labels))
    IN  Concat([i \in 1..Len(of) |-> of[i].tokens])

\* The tokens of a place in the order given: those of its first record, the
\* launch point of a Surface tower, those of its later records.
TokensOfPlace(q, key) ==
    LET recs == ReadOfKey(q, key)
        name == Trim(recs[1].rec.name.v)
        launch == IF LayerOfFile[recs[1].file] = <<"S", "u", "r", "f", "a", "c", "e">> /\ name \in TowerNames
                  THEN <<LaunchToken(name, recs[1].rec.locations.v[1])>>
                  ELSE <<>>
    IN  Tokens(recs[1].rec) \o launch \o TokensInOrder(Tail(recs))

\* The inventory lines a record gives.
LinesOf(rec) ==
    IF /\ rec.name.t = "string" /\ rec.name.v # <<>>
       /\ rec.icons.t = "array"
       /\ Len(rec.icons.v) = Len(Labels(rec))
    THEN LET labels == Labels(rec)
         IN  {InventoryLine(rec.icons.v[i], labels[i]) : i \in 1..Len(labels)}
    ELSE {}

StrictlyAscending(Cmp(_, _)) ==
    \A i \in 1..(Len(output) - 1) : Cmp(output[i].key, output[i + 1].key) < 0

OutputKeys == {output[i].key : i \in 1..Len(output)}

\* C9: the output of a finished run is fixed by the records read: its keys
\* are those of the records, in the one strictly ascending order, the tokens
\* of each line are in the order of their first occurrence in the input, and
\* the text written is the lines, each followed by one newline.
C9_Deterministic ==
    pc = "done" =>
      LET read == Read
          v == Valid(read)
          q == Qualifying(read)
      IN
        /\ Len(written) = 1
        /\ Last(written[1]) = "\n"
        /\ Len(written[1]) >= 2 => written[1][Len(written[1]) - 1] # "\n"
        /\ IF output = <<>> THEN written[1] = <<"\n">>
           ELSE Split(written[1], <<"\n">>) = [i \in 1..Len(output) |-> output[i].text] \o << <<>> >>
        /\ script = "inventory" =>
              /\ StrictlyAscending(CompareCodeUnits)
              /\ OutputKeys = UNION {LinesOf(read[k].rec) : k \in 1..Len(read)}
        /\ script = "locations" =>
              /\ StrictlyAscending(LocaleCompare)
              /\ OutputKeys = UNION {Elems(v[i].labels) : i \in 1..Len(v)}
              /\ \A i \in 1..Len(output) :
                    /\ output[i].tokens = FirstOccurrences(<<>>, TokensOfLabel(v, output[i].key))
                    /\ output[i].text = output[i].key \o <<" ">> \o Join(output[i].tokens, <<" ">>)
        /\ script = "places" =>
              /\ StrictlyAscending(LocaleCompare)
              /\ OutputKeys = {KeyOfRead(q[i]) : i \in 1..Len(q)}
              /\ \A i \in 1..Len(output) :
                    /\ output[i].tokens = FirstOccurrences(<<>>, TokensOfPlace(q, output[i].key))
                    /\ output[i].text = output[i].key \o <<" ">> \o Join(output[i].tokens, <<" ">>)

\* C9 witness: a finished run whose line for apple holds, in the order
\* given, the two points of its first record and the one new point of its
\* second.
C9_Witness ==
    /\ pc = "done"
    /\ script = "locations"
    /\ written = <<<<"a", "p", "p", "l", "e", " ", "(", "5", ",", "1", "0", "0", ",", "2", "0", "0", ")", " ", "(", "0", ",", "0", ",", "7", "5", "4", ")", " ", "(", "3", ",", "-", "2", ",", "-", "1", ")", "\n", "C", "h", "e", "r", "r", "y", " ", "(", "3", ",", "-", "2", ",", "-", "1", ")", " ", "(", "5", ",", "1", "0", "0", ",", "2", "0", "0", ")", "\n">>>>

RECURSIVE SumPoints(_)
SumPoints(m) == IF m = <<>> THEN 0 ELSE Len(Head(m).points) + SumPoints(Tail(m))

\* The places whose launch point was added: the Surface towers whose first
\* record did not itself hold the launch point.
LaunchAdded(q) ==
    {i \in 1..Len(places) :
        LET recs == ReadOfKey(q, PlacePath(places[i]))
        IN  /\ LaunchOf(places[i], recs) # {}
            /\ LaunchOf(places[i], recs) \cap Elems(Tokens(recs[1].rec)) = {}}

\* C10: stats.points is the sum of the sizes of the point sets of the
\* places, stats.launches the number of launch points added, at most one for
\* each tower place.
C10_PointAccounting ==
    script = "places" =>
        /\ stats.points = SumPoints(places)
        /\ stats.launches = Cardinality(LaunchAdded(Qualifying(Read)))
        /\ stats.launches <= Cardinality({i \in 1..Len(places) :
                                  places[i].layer = <<"S", "u", "r", "f", "a", "c", "e">> /\ places[i].name \in TowerNames})

\* C10 witness: the tower has its base, its launch point and one point more
\* after two records with four locations between them: three points, one
\* launch.
C10_Witness ==
    /\ script = "places"
    /\ pc = "entries"
    /\ stats.places = 2
    /\ stats.points = 3
    /\ stats.launches = 1
    /\ Len(places) = 1

=============================================================================
